---- MODULE Spec2Model ----
(***************************************************************************)
(* Model of plugins/modules/system_high_availability_settings.py: the      *)
(* reconcile run of main() over the hasync block of the OPNsense           *)
(* configuration, one action per statement group of main().                *)
(***************************************************************************)
EXTENDS Integers, Sequences, FiniteSets, TLC

\* ------------------------------------------------------------------------
\* Values
\* ------------------------------------------------------------------------

\* Python None: config.get() of a missing element, a parameter not given.
None == "<None>"

\* Python None where the other values are lists (a list parameter that is
\* not given, a result key that is not set).
NoList == << None >>

\* Largest number of tokens in a declared services_to_synchronize list.
MaxServices == 2

\* Number of consecutive invocations of the module followed in a behaviour.
MaxRuns == 2

\* Text found in / declared for the free-text leaves.
StoredText == {"10.0.0.9"}
DeclaredText == {"", "10.0.0.1"}

\* The optional free-text leaves of the hasync block.
ScalarFields == {"synchronize_peer_ip", "synchronize_config_to_ip",
                 "remote_system_username", "remote_system_password"}

RemoteFields == {"synchronize_config_to_ip", "remote_system_username",
                 "remote_system_password"}

\* ------------------------------------------------------------------------
\* Strings: str.lower() on the tokens the model uses
\* ------------------------------------------------------------------------

Lower(s) ==
    CASE s = "LAN"      -> "lan"
      [] s = "Sync"     -> "sync"
      [] s = "SYNC"     -> "sync"
      [] s = "Loopback" -> "loopback"
      [] s = "OPT1"     -> "opt1"
      [] s = "ALIASES"  -> "aliases"
      [] s = "Aliases"  -> "aliases"
      [] s = "NAT"      -> "nat"
      [] s = "Firewall Rules" -> "firewall rules"
      [] s = "Bogus"    -> "bogus"
      [] OTHER          -> s

\* ------------------------------------------------------------------------
\* Ordered mappings (Python dict): a sequence of <<key, value>> pairs with
\* distinct keys, in insertion order.
\* ------------------------------------------------------------------------

Keys(m) == {m[i][1] : i \in 1..Len(m)}
Vals(m) == {m[i][2] : i \in 1..Len(m)}

\* m[k] for a key k of m
Lookup(m, k) == m[CHOOSE i \in 1..Len(m) : m[i][1] = k][2]

\* {v: k for k, v in m.items()}[v]: a later key overwrites an earlier one.
ReverseLookup(m, v) ==
    LET last == CHOOSE i \in 1..Len(m) :
                    /\ m[i][2] = v
                    /\ \A j \in 1..Len(m) : m[j][2] = v => j <= i
    IN  m[last][1]

\* d.update(m): existing keys keep their position and take the new value,
\* new keys are appended in m's order.
RECURSIVE DictUpdate(_, _)
DictUpdate(d, m) ==
    IF m = << >> THEN d
    ELSE LET k == m[1][1]
             v == m[1][2]
             d1 == IF k \in Keys(d)
                   THEN [i \in 1..Len(d) |-> IF d[i][1] = k THEN <<k, v>> ELSE d[i]]
                   ELSE Append(d, <<k, v>>)
         IN  DictUpdate(d1, Tail(m))

\* ------------------------------------------------------------------------
\* The configuration store (OPNsenseModuleConfig, module_utils/config_utils):
\* the hasync block of the XML tree.  A leaf is None when the element is
\* missing, else its text.  flags holds the identifiers id for which a child
\* synchronize<id> exists (its text is always "on").
\* ------------------------------------------------------------------------

NoBlock ==
    [hasync |-> FALSE,
     synchronize_states |-> None,
     synchronize_interface |-> None,
     synchronize_peer_ip |-> None,
     synchronize_config_to_ip |-> None,
     remote_system_username |-> None,
     remote_system_password |-> None,
     flags |-> {}]

\* config.get(setting): the element, or None
ConfigGet(config, setting) == config[setting]

\* config.set(value, setting): the leaf holds value; a value of None leaves
\* the field cleared.
ConfigSet(config, value, setting) == [config EXCEPT ![setting] = value]

\* config.get("hasync").remove(config.get(setting))
ConfigRemove(config, setting) == [config EXCEPT ![setting] = None]

\* config.changed: the in-memory tree differs from the persisted record
ConfigChanged(config, persisted) == config # persisted

\* config.diff
ConfigDiff(config, persisted) == [before |-> persisted, after |-> config]

\* Result of a handler: the tree it leaves behind and the exception it
\* raised ("" when it returned).
Ok(config) == [tree |-> config, err |-> ""]
Raise(config, exc) == [tree |-> config, err |-> exc]

\* ------------------------------------------------------------------------
\* Handlers
\* ------------------------------------------------------------------------

\* get_configured_interface_with_descr(): query is the outcome of the php
\* call, [stderr, entries] with entries the parsed key:description items.
get_configured_interface_with_descr(query) ==
    IF query.stderr
    THEN [err |-> "OPNSenseGetInterfacesError", val |-> << >>]
    ELSE IF Len(query.entries) < 1
         THEN [err |-> "OPNSenseGetInterfacesError", val |-> << >>]
         ELSE [err |-> "", val |-> query.entries]

synchronize_interface(config, sync_interface, query) ==
    LET got == get_configured_interface_with_descr(query)
        interfaces == DictUpdate(<< <<"lo0", "Loopback">> >>, got.val)
        hits == {i \in 1..Len(interfaces) :
                    Lower(sync_interface) \in
                        {Lower(interfaces[i][1]), Lower(interfaces[i][2])}}
        first == CHOOSE i \in hits : \A j \in hits : i <= j
    IN  IF got.err # "" THEN Raise(config, got.err)
        ELSE IF hits # {}
             THEN Ok(ConfigSet(config, interfaces[first][1], "synchronize_interface"))
             ELSE Raise(config, "ValueError")

\* check_hasync_node without its test: the defaults are written on every run
check_hasync_node_always(config, query) ==
    LET created == [config EXCEPT !.hasync = TRUE]
        r == synchronize_interface(created, "lan", query)
    IN  IF r.err # "" THEN r
        ELSE Ok(ConfigSet(ConfigSet(ConfigSet(r.tree,
                   None, "synchronize_config_to_ip"),
                   None, "remote_system_username"),
                   None, "remote_system_password"))

check_hasync_node(config, query) ==
    IF ConfigGet(config, "hasync") = FALSE
    THEN LET created == [config EXCEPT !.hasync = TRUE]
             r == synchronize_interface(created, "lan", query)
         IN  IF r.err # "" THEN r
             ELSE Ok(ConfigSet(ConfigSet(ConfigSet(r.tree,
                        None, "synchronize_config_to_ip"),
                        None, "remote_system_username"),
                        None, "remote_system_password"))
    ELSE Ok(config)

\* synchronize_states with the "not" of its elif dropped
synchronize_states_slip(config, setting) ==
    IF setting /\ ConfigGet(config, "synchronize_states") = None
    THEN ConfigSet(config, "on", "synchronize_states")
    ELSE IF setting /\ ConfigGet(config, "synchronize_states") # None
         THEN ConfigRemove(config, "synchronize_states")
         ELSE config

synchronize_states(config, setting) ==
    IF setting /\ ConfigGet(config, "synchronize_states") = None
    THEN ConfigSet(config, "on", "synchronize_states")
    ELSE IF ~setting /\ ConfigGet(config, "synchronize_states") # None
         THEN ConfigRemove(config, "synchronize_states")
         ELSE config

\* Python truthiness of an optional str parameter
Truthy(param) == param # None /\ param # ""

synchronize_peer_ip(config, peer_ip) ==
    IF Truthy(peer_ip)
    THEN ConfigSet(config, peer_ip, "synchronize_peer_ip")
    ELSE IF ConfigGet(config, "synchronize_peer_ip") # None
         THEN ConfigRemove(config, "synchronize_peer_ip")
         ELSE config

\* remote_system_synchronization without its three tests
remote_system_synchronization_unguarded(config, remote_backup_url, username, password) ==
    ConfigSet(ConfigSet(ConfigSet(config,
        remote_backup_url, "synchronize_config_to_ip"),
        username, "remote_system_username"),
        password, "remote_system_password")

remote_system_synchronization(config, remote_backup_url, username, password) ==
    LET c1 == IF Truthy(remote_backup_url)
              THEN ConfigSet(config, remote_backup_url, "synchronize_config_to_ip")
              ELSE config
        c2 == IF Truthy(username)
              THEN ConfigSet(c1, username, "remote_system_username")
              ELSE c1
    IN  IF Truthy(password)
        THEN ConfigSet(c2, password, "remote_system_password")
        ELSE c2

\* plugins_xmlrpc_sync(): query is the outcome of the php call, [stderr,
\* entries] with entries the id,description lines.
plugins_xmlrpc_sync(query) ==
    IF query.stderr
    THEN [err |-> "OPNSenseGetInterfacesError", val |-> << >>]
    ELSE [err |-> "", val |-> query.entries]

\* The first loop without the reverse lookup: a service given by its
\* description gets a flag named after the description.
RECURSIVE CreateFlags_by_token(_, _, _)
CreateFlags_by_token(config, services, allowed_services) ==
    IF services = << >> THEN Ok(config)
    ELSE LET service == Head(services)
         IN  IF service \in Keys(allowed_services) \cup Vals(allowed_services)
             THEN CreateFlags_by_token([config EXCEPT !.flags = @ \cup {service}],
                                       Tail(services), allowed_services)
             ELSE Raise(config, "ValueError")

\* First loop of services_to_synchronize: resolve each token in turn and
\* append its flag; the first token that resolves to nothing raises.
RECURSIVE CreateFlags(_, _, _)
CreateFlags(config, services, allowed_services) ==
    IF services = << >> THEN Ok(config)
    ELSE LET service == Head(services)
         IN  IF service \in Keys(allowed_services)
             THEN CreateFlags([config EXCEPT !.flags = @ \cup {service}],
                              Tail(services), allowed_services)
             ELSE IF service \in Vals(allowed_services)
                  THEN CreateFlags(
                         [config EXCEPT !.flags =
                             @ \cup {ReverseLookup(allowed_services, service)}],
                         Tail(services), allowed_services)
                  ELSE Raise(config, "ValueError")

\* The second loop walking the flags of the tree instead of the allow-list:
\* it also drops flags of services that are no longer installed.
RemoveFlags_prune(config, sync_services, allowed_services) ==
    LET named == {sync_services[i] : i \in 1..Len(sync_services)}
        keep == {id \in Keys(allowed_services) :
                    id \in named \/ Lookup(allowed_services, id) \in named}
    IN  [config EXCEPT !.flags = @ \cap keep]

\* Second loop of services_to_synchronize: drop the flag of every allowed
\* service that the declaration names neither by id nor by description.
RemoveFlags(config, sync_services, allowed_services) ==
    LET named == {sync_services[i] : i \in 1..Len(sync_services)}
        drop == {id \in Keys(allowed_services) :
                    /\ id \notin named
                    /\ Lookup(allowed_services, id) \notin named
                    /\ id \in config.flags}
    IN  [config EXCEPT !.flags = @ \ drop]

services_to_synchronize(config, sync_services, query) ==
    LET got == plugins_xmlrpc_sync(query)
        made == CreateFlags(config, sync_services, got.val)
    IN  IF got.err # "" THEN Raise(config, got.err)
        ELSE IF made.err # "" THEN made
             ELSE Ok(RemoveFlags(made.tree, sync_services, got.val))

\* A handler handed a record without the hasync block.  config.get returns
\* None for every leaf, so a handler that has nothing to set returns as on
\* any record; config.set below an absent block is refused by the store.
SetWithoutBlock(config, r) ==
    IF ConfigGet(config, "hasync") = FALSE /\ r.err = "" /\ r.tree # config
    THEN Raise(config, "StructuralPrecondition")
    ELSE r

\* services_to_synchronize on a record without the hasync block:
\* config.get("hasync") is None, so the first .find() raises: in the first
\* loop once a token is resolved, in the second loop on the first allowed
\* service.
FindWithoutBlock(config, sync_services, query, r) ==
    LET got == plugins_xmlrpc_sync(query)
    IN  IF ConfigGet(config, "hasync") # FALSE \/ got.err # "" THEN r
        ELSE IF sync_services # << >>
             THEN IF Head(sync_services) \in Keys(got.val) \cup Vals(got.val)
                  THEN Raise(config, "AttributeError")
                  ELSE Raise(config, "ValueError")
             ELSE IF got.val # << >>
                  THEN Raise(config, "AttributeError")
                  ELSE Ok(config)

\* ------------------------------------------------------------------------
\* Inputs of a behaviour: the persisted record the first run starts from,
\* the declaration (module.params) and what the host answers.
\* ------------------------------------------------------------------------

\* Outcomes of "list configured interfaces with descriptions": a host with
\* lan and a sync interface, a host without lan, a host whose opt1 the
\* administrator has described as "lan", a failed and an empty query.
LanAndSync == [stderr |-> FALSE, entries |-> << <<"lan", "LAN">>, <<"opt1", "sync">> >>]
SyncOnly == [stderr |-> FALSE, entries |-> << <<"opt1", "sync">> >>]
LanTwice == [stderr |-> FALSE, entries |-> << <<"opt1", "lan">>, <<"lan", "LAN">> >>]
QueryFailed == [stderr |-> TRUE, entries |-> << >>]
QueryEmpty == [stderr |-> FALSE, entries |-> << >>]

InterfaceQueries == {LanAndSync, SyncOnly, LanTwice, QueryFailed, QueryEmpty}

\* Outcomes of "list synchronizable services with descriptions".  As in the
\* lists OPNsense registers, the descriptions are pairwise distinct and none
\* of them is the identifier of another service.
ThreeServices ==
    [stderr |-> FALSE,
     entries |-> << <<"aliases", "Aliases">>, <<"rules", "Firewall Rules">>,
                    <<"nat", "NAT">> >>]
TwoServices ==
    [stderr |-> FALSE,
     entries |-> << <<"aliases", "Aliases">>, <<"rules", "Firewall Rules">> >>]

ServiceQueries == {ThreeServices, TwoServices, QueryFailed, QueryEmpty}

\* Return codes of the configure functions run by config.apply_settings()
ApplyResults == {<<0, 0>>, <<0, 1>>, <<1, 0>>}

GoodHost == [interfaces |-> LanAndSync, services |-> ThreeServices, apply |-> <<0, 0>>]

\* Tokens a declaration may give for synchronize_interface
InterfaceTokens == {"lan", "LAN", "Sync", "opt1", "Loopback", "wan", ""}

\* Tokens a declaration may list in services_to_synchronize
ServiceTokens == {"aliases", "rules", "nat", "Aliases", "Firewall Rules", "NAT",
                  "ALIASES", "Bogus"}

\* Identifiers whose flag the persisted record may carry (none of the
\* synchronize<id> names is the name of another leaf of the block)
ServiceIds == {"aliases", "rules", "nat"}

ServiceLists(tokens) ==
    UNION {[1..n -> tokens] : n \in 0..MaxServices}

OptionalText == {None} \cup DeclaredText

\* A declaration that mentions only the mandatory interface
BaseParams ==
    [synchronize_states |-> FALSE,
     synchronize_interface |-> "lan",
     synchronize_peer_ip |-> None,
     synchronize_config_to_ip |-> None,
     remote_system_username |-> None,
     remote_system_password |-> None,
     services_to_synchronize |-> NoList]

\* A block as the first run of BaseParams leaves it
BaseBlock ==
    [hasync |-> TRUE,
     synchronize_states |-> None,
     synchronize_interface |-> "lan",
     synchronize_peer_ip |-> None,
     synchronize_config_to_ip |-> None,
     remote_system_username |-> None,
     remote_system_password |-> None,
     flags |-> {}]

FullBlock ==
    [hasync |-> TRUE,
     synchronize_states |-> "on",
     synchronize_interface |-> "opt1",
     synchronize_peer_ip |-> "10.0.0.9",
     synchronize_config_to_ip |-> "10.0.0.9",
     remote_system_username |-> "10.0.0.9",
     remote_system_password |-> "10.0.0.9",
     flags |-> {"aliases", "rules"}]

\* ------------------------------------------------------------------------
\* State
\* ------------------------------------------------------------------------

VARIABLES
    disk,        \* the persisted record (config.xml)
    tree,        \* config._config_xml_tree of the open session
    session,     \* "closed" | "open": the with-block of main()
    pc,          \* position of main()
    params,      \* module.params
    check_mode,  \* module.check_mode
    host,        \* what the php queries and the apply return on this host
    result,      \* the result dict of main()
    calls,       \* config.save() / config.apply_settings() calls of this run
    outcome,     \* how the run ended
    error,       \* the exception that ended the run, and the handler that raised it
    start,       \* the persisted record when the run started
    run,         \* number of runs started
    prev         \* summary of the run before this one

vars == <<disk, tree, session, pc, params, check_mode, host, result, calls,
          outcome, error, start, run, prev>>

NoError == [handler |-> "", exc |-> ""]

\* result["diff"] before it is set (the diff of a changed tree never has
\* before = after)
NoDiff == [before |-> NoBlock, after |-> NoBlock]

NoResult == [changed |-> FALSE, diff |-> NoDiff, opnsense_configure_output |-> NoList]

NoPrev == [check_mode |-> FALSE, outcome |-> "", changed |-> FALSE, diff |-> NoDiff]

\* The free-text leaves and the states leaf in every combination.
InitScalars ==
    /\ disk \in {NoBlock} \cup
           [hasync : {TRUE},
            synchronize_states : {None, "on"},
            synchronize_interface : {"lan"},
            synchronize_peer_ip : {None} \cup StoredText,
            synchronize_config_to_ip : {None} \cup StoredText,
            remote_system_username : {None} \cup StoredText,
            remote_system_password : {None} \cup StoredText,
            flags : {{}}]
    /\ params \in
           [synchronize_states : BOOLEAN,
            synchronize_interface : {"lan"},
            synchronize_peer_ip : OptionalText,
            synchronize_config_to_ip : OptionalText,
            remote_system_username : OptionalText,
            remote_system_password : OptionalText,
            services_to_synchronize : {NoList}]
    /\ host = GoodHost

\* The service flags and the service lists in every combination.
InitFlags ==
    /\ disk \in {NoBlock} \cup {[BaseBlock EXCEPT !.flags = f] : f \in SUBSET ServiceIds}
    /\ params \in {[BaseParams EXCEPT !.services_to_synchronize = l] :
                      l \in {NoList} \cup ServiceLists(ServiceTokens)}
    /\ host \in {[GoodHost EXCEPT !.services = q] : q \in ServiceQueries}

\* The interface tokens and the host's answers in every combination.
InitHost ==
    /\ disk \in {NoBlock, BaseBlock, FullBlock}
    /\ params \in {[BaseParams EXCEPT !.synchronize_interface = t,
                                      !.synchronize_states = b,
                                      !.services_to_synchronize = l] :
                      t \in InterfaceTokens, b \in BOOLEAN,
                      l \in {NoList, <<"aliases">>}}
    /\ host \in [interfaces : InterfaceQueries, services : ServiceQueries,
                 apply : ApplyResults]

\* Declarations that mention several fields at once, on an empty and on a
\* fully populated record.
InitMixed ==
    /\ disk \in {NoBlock, FullBlock}
    /\ params \in
           [synchronize_states : BOOLEAN,
            synchronize_interface : {"lan", "Sync"},
            synchronize_peer_ip : {None, "10.0.0.1"},
            synchronize_config_to_ip : {None, "10.0.0.1"},
            remote_system_username : {None, "10.0.0.1"},
            remote_system_password : {None, "10.0.0.1"},
            services_to_synchronize : {NoList, <<"rules", "nat">>}]
    /\ host \in {[GoodHost EXCEPT !.apply = a] : a \in ApplyResults}

Init ==
    /\ InitScalars \/ InitFlags \/ InitHost \/ InitMixed
    /\ tree = NoBlock
    /\ session = "closed"
    /\ pc = "idle"
    /\ check_mode = FALSE
    /\ result = NoResult
    /\ calls = << >>
    /\ outcome = ""
    /\ error = NoError
    /\ start = NoBlock
    /\ run = 0
    /\ prev = NoPrev

\* A handler is about to be called on its own with an open configuration:
\* on a record without the block, and on one with it.
InitCalls ==
    /\ disk \in {NoBlock, BaseBlock}
    /\ params \in
           [synchronize_states : BOOLEAN,
            synchronize_interface : {"lan"},
            synchronize_peer_ip : {None, "10.0.0.1"},
            synchronize_config_to_ip : {None, "10.0.0.1"},
            remote_system_username : {None, "10.0.0.1"},
            remote_system_password : {None},
            services_to_synchronize : {<< >>, <<"rules">>, <<"Bogus">>}]
    /\ host \in {[GoodHost EXCEPT !.services = q] : q \in ServiceQueries}
    /\ tree = disk
    /\ session = "open"
    /\ pc = "call"
    /\ check_mode = FALSE
    /\ result = NoResult
    /\ calls = << >>
    /\ outcome = ""
    /\ error = NoError
    /\ start = disk
    /\ run = 0
    /\ prev = NoPrev

\* ------------------------------------------------------------------------
\* main()
\* ------------------------------------------------------------------------

\* A handler raised: the exception leaves the with-block (the session is
\* released without save) and ends the run.  how is "fail_json" when main()
\* catches the exception and "exception" when it propagates.
\* An error path that writes the tree out before it reports the failure
Abort_flush(how, handler, r) ==
    /\ tree' = r.tree
    /\ disk' = r.tree
    /\ session' = "closed"
    /\ outcome' = how
    /\ error' = [handler |-> handler, exc |-> r.err]
    /\ pc' = "done"

\* An error path that leaves the with-block without releasing the session
Abort_leak(how, handler, r) ==
    /\ tree' = r.tree
    /\ disk' = disk
    /\ session' = session
    /\ outcome' = how
    /\ error' = [handler |-> handler, exc |-> r.err]
    /\ pc' = "done"

Abort(how, handler, r) ==
    /\ tree' = r.tree
    /\ disk' = disk
    /\ session' = "closed"
    /\ outcome' = how
    /\ error' = [handler |-> handler, exc |-> r.err]
    /\ pc' = "done"

\* The module is invoked: argument parsing, result dict, and
\* OPNsenseModuleConfig.__enter__ loading the persisted record.
Start ==
    /\ pc \in {"idle", "done"}
    /\ run < MaxRuns
    /\ \E cm \in BOOLEAN : check_mode' = cm
    /\ run' = run + 1
    /\ prev' = IF run = 0 THEN NoPrev
               ELSE [check_mode |-> check_mode, outcome |-> outcome,
                     changed |-> result.changed, diff |-> result.diff]
    /\ tree' = disk
    /\ session' = "open"
    /\ result' = NoResult
    /\ calls' = << >>
    /\ outcome' = ""
    /\ error' = NoError
    /\ start' = disk
    /\ pc' = "check_hasync_node"
    /\ UNCHANGED <<disk, params, host>>

CheckHasyncNode ==
    /\ pc = "check_hasync_node"
    /\ LET r == check_hasync_node(tree, host.interfaces)
       IN  IF r.err # ""
           THEN Abort("exception", "check_hasync_node", r)
           ELSE /\ tree' = r.tree
                /\ pc' = "remote_system_synchronization"
                /\ UNCHANGED <<disk, session, outcome, error>>
    /\ UNCHANGED <<params, check_mode, host, result, calls, start, run, prev>>

RemoteSystemSynchronization ==
    /\ pc = "remote_system_synchronization"
    /\ tree' = remote_system_synchronization(tree, params.synchronize_config_to_ip,
                    params.remote_system_username, params.remote_system_password)
    /\ pc' = "synchronize_states"
    /\ UNCHANGED <<disk, session, params, check_mode, host, result, calls,
                   outcome, error, start, run, prev>>

SynchronizeStates ==
    /\ pc = "synchronize_states"
    /\ tree' = IF params.synchronize_states
               THEN synchronize_states(tree, params.synchronize_states)
               ELSE tree
    /\ pc' = "synchronize_interface"
    /\ UNCHANGED <<disk, session, params, check_mode, host, result, calls,
                   outcome, error, start, run, prev>>

SynchronizeInterface ==
    /\ pc = "synchronize_interface"
    /\ IF Truthy(params.synchronize_interface)
       THEN LET r == synchronize_interface(tree, params.synchronize_interface,
                                           host.interfaces)
            IN  IF r.err \in {"ValueError", "OPNSenseGetInterfacesError"}
                THEN Abort("fail_json", "synchronize_interface", r)
                ELSE /\ tree' = r.tree
                     /\ pc' = "synchronize_peer_ip"
                     /\ UNCHANGED <<disk, session, outcome, error>>
       ELSE /\ pc' = "synchronize_peer_ip"
            /\ UNCHANGED <<disk, tree, session, outcome, error>>
    /\ UNCHANGED <<params, check_mode, host, result, calls, start, run, prev>>

SynchronizePeerIp ==
    /\ pc = "synchronize_peer_ip"
    /\ tree' = IF Truthy(params.synchronize_peer_ip)
               THEN synchronize_peer_ip(tree, params.synchronize_peer_ip)
               ELSE tree
    /\ pc' = "services_to_synchronize"
    /\ UNCHANGED <<disk, session, params, check_mode, host, result, calls,
                   outcome, error, start, run, prev>>

ServicesToSynchronize ==
    /\ pc = "services_to_synchronize"
    /\ IF params.services_to_synchronize # NoList
       THEN LET r == services_to_synchronize(tree, params.services_to_synchronize,
                                             host.services)
            IN  IF r.err = "ValueError"
                THEN Abort("fail_json", "services_to_synchronize", r)
                ELSE IF r.err # ""
                     THEN Abort("exception", "services_to_synchronize", r)
                     ELSE /\ tree' = r.tree
                          /\ pc' = "report"
                          /\ UNCHANGED <<disk, session, outcome, error>>
       ELSE /\ pc' = "report"
            /\ UNCHANGED <<disk, tree, session, outcome, error>>
    /\ UNCHANGED <<params, check_mode, host, result, calls, start, run, prev>>

\* The report guarded like the commit
ReportChanged_real(changed, dry_run) == changed /\ ~dry_run

\* if config.changed: result["diff"], result["changed"]
ReportChanged(changed, dry_run) == changed

\* The commit guarded like the report
MustCommit_always(changed, dry_run) == changed

\* if config.changed and not module.check_mode:
MustCommit(changed, dry_run) == changed /\ ~dry_run

Report ==
    /\ pc = "report"
    /\ LET changed == ConfigChanged(tree, disk)
       IN  /\ result' = IF ReportChanged(changed, check_mode)
                        THEN [result EXCEPT !.changed = TRUE,
                                            !.diff = ConfigDiff(tree, disk)]
                        ELSE result
           /\ pc' = IF MustCommit(changed, check_mode) THEN "save" ELSE "exit_json"
    /\ UNCHANGED <<disk, tree, session, params, check_mode, host, calls,
                   outcome, error, start, run, prev>>

\* config.save(): the tree is written to the persisted record
Save ==
    /\ pc = "save"
    /\ disk' = tree
    /\ calls' = Append(calls, "save")
    /\ pc' = "apply"
    /\ UNCHANGED <<tree, session, params, check_mode, host, result, outcome,
                   error, start, run, prev>>

\* The inspection stopping at the first result
ApplyFailed_first(output) == output[1] # 0

\* for cmd_result in result["opnsense_configure_output"]: if cmd_result["rc"] != 0
ApplyFailed(output) == \E i \in 1..Len(output) : output[i] # 0

\* config.apply_settings() and the inspection of every rc
Apply ==
    /\ pc = "apply"
    /\ calls' = Append(calls, "apply")
    /\ result' = [result EXCEPT !.opnsense_configure_output = host.apply]
    /\ IF ApplyFailed(host.apply)
       THEN /\ session' = "closed"
            /\ outcome' = "apply_failed"
            /\ pc' = "done"
       ELSE /\ pc' = "exit_json"
            /\ UNCHANGED <<session, outcome>>
    /\ UNCHANGED <<disk, tree, params, check_mode, host, error, start, run, prev>>

\* module.exit_json(**result): the process exits through the with-block
ExitJson ==
    /\ pc = "exit_json"
    /\ session' = "closed"
    /\ outcome' = "exit_json"
    /\ pc' = "done"
    /\ UNCHANGED <<disk, tree, params, check_mode, host, result, calls, error,
                   start, run, prev>>

Next ==
    \/ Start
    \/ CheckHasyncNode
    \/ RemoteSystemSynchronization
    \/ SynchronizeStates
    \/ SynchronizeInterface
    \/ SynchronizePeerIp
    \/ ServicesToSynchronize
    \/ Report
    \/ Save
    \/ Apply
    \/ ExitJson

Spec == Init /\ [][Next]_vars

\* ------------------------------------------------------------------------
\* The handlers called on their own, as a caller other than main() may
\* call them
\* ------------------------------------------------------------------------

CallReturns(handler, r) ==
    /\ tree' = r.tree
    /\ error' = [handler |-> handler, exc |-> r.err]
    /\ outcome' = IF r.err = "" THEN "returned" ELSE "raised"
    /\ pc' = "returned"
    /\ UNCHANGED <<disk, session, params, check_mode, host, result, calls,
                   start, run, prev>>

CallRemoteSystemSynchronization ==
    /\ pc = "call"
    /\ CallReturns("remote_system_synchronization",
        SetWithoutBlock(tree,
            Ok(remote_system_synchronization(tree, params.synchronize_config_to_ip,
                   params.remote_system_username, params.remote_system_password))))

CallSynchronizeStates ==
    /\ pc = "call"
    /\ CallReturns("synchronize_states",
        SetWithoutBlock(tree, Ok(synchronize_states(tree, params.synchronize_states))))

CallSynchronizePeerIp ==
    /\ pc = "call"
    /\ CallReturns("synchronize_peer_ip",
        SetWithoutBlock(tree, Ok(synchronize_peer_ip(tree, params.synchronize_peer_ip))))

CallServicesToSynchronize ==
    /\ pc = "call"
    /\ CallReturns("services_to_synchronize",
        FindWithoutBlock(tree, params.services_to_synchronize, host.services,
            services_to_synchronize(tree, params.services_to_synchronize,
                                    host.services)))

NextCalls ==
    \/ Next
    \/ CallRemoteSystemSynchronization
    \/ CallSynchronizeStates
    \/ CallSynchronizePeerIp
    \/ CallServicesToSynchronize

\* main() on every input of Spec, and every handler on its own
SpecCalls == (Init \/ InitCalls) /\ [][NextCalls]_vars

\* ------------------------------------------------------------------------
\* Properties
\* ------------------------------------------------------------------------

Done == pc = "done"

\* The run reached the end of the reconciliation steps (line 406).
Reconciled == outcome \in {"exit_json", "apply_failed"}

\* The run ended on an error raised by a reconciliation step.
Aborted == outcome \in {"fail_json", "exception"}

\* The identifiers of the allow-list that a list of tokens names, by
\* identifier or by description.
DesiredIds(tokens, allowed) ==
    {id \in Keys(allowed) :
        \E i \in 1..Len(tokens) :
            tokens[i] = id \/ tokens[i] = Lookup(allowed, id)}

\* C1: a run that follows a successful real run with the same declaration
\* and the same allow-lists reports changed=false and neither saves nor
\* applies.
C1_Idempotent ==
    (run >= 2 /\ prev.outcome = "exit_json" /\ ~prev.check_mode) =>
        /\ calls = << >>
        /\ Done => (outcome = "exit_json" /\ ~result.changed)

C1_Witness ==
    /\ Done /\ run = 2
    /\ prev.outcome = "exit_json" /\ ~prev.check_mode /\ prev.changed
    /\ ~check_mode /\ outcome = "exit_json"
    /\ params.services_to_synchronize # NoList
    /\ params.synchronize_states

C3_AbortLeavesRecord ==
    (Done /\ Aborted) => (calls = << >> /\ disk = start)

C3_Witness ==
    /\ Done /\ Aborted
    /\ error.handler = "services_to_synchronize"
    /\ tree # disk

\* C4: when services_to_synchronize fails on an unresolvable token, the
\* flags of the tree are those it was entered with.
C4_FlagStepAllOrNothing ==
    (Done /\ error.handler = "services_to_synchronize" /\ error.exc = "ValueError")
        => tree.flags = start.flags

\* The three terminal outcomes of a run that exits through exit_json
Committed == outcome = "exit_json" /\ calls = <<"save", "apply">>
DryRunReported == outcome = "exit_json" /\ calls = << >> /\ result.changed /\ check_mode
NoOpReported == outcome = "exit_json" /\ calls = << >> /\ ~result.changed

\* C5: a run saves and then applies exactly when it reaches the end of the
\* reconciliation with changed=true and dry-run off; a run that exits
\* normally is in exactly one of Committed, DryRunReported, NoOpReported.
C5_CommitIffChangedAndReal ==
    Done =>
        /\ calls \in {<< >>, <<"save", "apply">>}
        /\ (calls = <<"save", "apply">>) <=>
               (Reconciled /\ result.changed /\ ~check_mode)
        /\ outcome = "exit_json" =>
               Cardinality({i \in 1..3 :
                   <<Committed, DryRunReported, NoOpReported>>[i]}) = 1

C5_Witness ==
    /\ Done /\ run = 2
    /\ Committed
    /\ prev.outcome = "exit_json" /\ prev.check_mode /\ prev.changed

Resolvable(token, query) ==
    /\ get_configured_interface_with_descr(query).err = ""
    /\ \E i \in 1..Len(DictUpdate(<< <<"lo0", "Loopback">> >>, query.entries)) :
           LET e == DictUpdate(<< <<"lo0", "Loopback">> >>, query.entries)[i]
           IN  Lower(token) \in {Lower(e[1]), Lower(e[2])}

OnlyInterfaceDeclared ==
    params = [BaseParams EXCEPT !.synchronize_interface = params.synchronize_interface]

\* C7: a run on a record without hasync block, with a declaration that sets
\* only the interface, to a resolvable token, ends with the block present,
\* the three remote-sync leaves absent, the interface leaf holding the
\* identifier the token resolves to, and changed=true.
C7_BootstrapThenDefault ==
    (Done /\ start = NoBlock /\ OnlyInterfaceDeclared
          /\ Resolvable(params.synchronize_interface, host.interfaces)) =>
        /\ Reconciled
        /\ tree.hasync
        /\ \A f \in RemoteFields : tree[f] = None
        /\ tree.synchronize_interface =
               synchronize_interface(NoBlock, params.synchronize_interface,
                                     host.interfaces).tree.synchronize_interface
        /\ result.changed

C9_ExplicitEmptyClears ==
    (Done /\ outcome = "exit_json") =>
        \A f \in ScalarFields :
            /\ (params[f] = "" /\ start[f] # None) => tree[f] = None
            /\ Truthy(params[f]) => tree[f] = params[f]

\* C10: after a successful run the states leaf is present, with "on",
\* exactly when the declared synchronize_states is true.
C10_StatesConverge ==
    (Done /\ outcome = "exit_json") =>
        /\ tree.synchronize_states \in {None, "on"}
        /\ (tree.synchronize_states = "on") <=> params.synchronize_states

\* C11: a real run with changes saves before it applies; when any apply
\* result has a non-zero rc the run ends in failure, never in exit_json, and
\* the persisted record keeps the value that was saved.
C11_ApplyFailureIsFatal ==
    /\ pc = "apply" => (calls = <<"save">> /\ disk = tree /\ ~check_mode)
    /\ (Done /\ calls # << >>) =>
           /\ calls = <<"save", "apply">>
           /\ result.opnsense_configure_output = host.apply
           /\ IF \E i \in 1..Len(host.apply) : host.apply[i] # 0
              THEN outcome = "apply_failed" /\ disk = tree /\ disk # start
              ELSE outcome = "exit_json"

C11_Witness ==
    /\ Done /\ outcome = "apply_failed"
    /\ host.apply = <<0, 1>>
    /\ disk = tree /\ disk # start

\* The identifiers of the interface list (with the loopback entry) that a
\* token equals, case-insensitively, by identifier or by description
InterfaceMatches(token, query) ==
    LET interfaces == DictUpdate(<< <<"lo0", "Loopback">> >>, query.entries)
    IN  {interfaces[i][1] : i \in {j \in 1..Len(interfaces) :
            Lower(token) \in {Lower(interfaces[j][1]), Lower(interfaces[j][2])}}}

\* The identifiers of the service list that a token equals,
\* case-insensitively, by identifier or by description
ServiceMatches(token, allowed) ==
    {allowed[i][1] : i \in {j \in 1..Len(allowed) :
        Lower(token) \in {Lower(allowed[j][1]), Lower(allowed[j][2])}}}

\* C12: an interface or service token is accepted only when exactly one
\* identifier of the allow-list matches it; a token that matches several
\* makes the step fail.
C12_UnambiguousOrFails ==
    /\ (pc = "synchronize_peer_ip" /\ Truthy(params.synchronize_interface)) =>
           Cardinality(InterfaceMatches(params.synchronize_interface,
                                        host.interfaces)) = 1
    /\ (pc = "report" /\ params.services_to_synchronize # NoList) =>
           \A i \in 1..Len(params.services_to_synchronize) :
               Cardinality(ServiceMatches(params.services_to_synchronize[i],
                                          host.services.entries)) = 1

\* C13: a token that differs from an identifier or description of the
\* allow-list only in letter case is resolved: neither step rejects it, and
\* the flag-set step leaves the flags of the identifiers so named.
C13_CaseInsensitive ==
    /\ (Done /\ error.handler = "synchronize_interface" /\ error.exc = "ValueError") =>
           InterfaceMatches(params.synchronize_interface, host.interfaces) = {}
    /\ (Done /\ error.handler = "services_to_synchronize" /\ error.exc = "ValueError") =>
           \E i \in 1..Len(params.services_to_synchronize) :
               ServiceMatches(params.services_to_synchronize[i],
                              host.services.entries) = {}
    /\ (pc = "report" /\ params.services_to_synchronize # NoList) =>
           tree.flags \cap Keys(host.services.entries) =
               UNION {ServiceMatches(params.services_to_synchronize[i],
                                     host.services.entries) :
                          i \in 1..Len(params.services_to_synchronize)}

\* C14: on a record whose hasync block exists, check_hasync_node leaves the
\* tree as it was loaded, so the session does not report changed, and it
\* never fails: it does not ask the host for its interfaces.
C14_BootstrapNoOp ==
    /\ (pc = "remote_system_synchronization" /\ start.hasync) =>
           (tree = start /\ ~ConfigChanged(tree, disk))
    /\ (Done /\ error.handler = "check_hasync_node") => ~start.hasync

C14_Witness ==
    /\ pc = "remote_system_synchronization"
    /\ start = FullBlock
    /\ host.interfaces = QueryFailed
    /\ tree = FullBlock

\* C15: whenever the hasync block exists in the tree, synchronize_interface
\* holds a value, and the value is an identifier: a key of the host's
\* interfaces with lo0 added (or the identifier the record already stored),
\* never a description.
C15_InterfaceInvariant ==
    tree.hasync =>
        /\ tree.synchronize_interface # None
        /\ \/ tree.synchronize_interface \in
                  Keys(DictUpdate(<< <<"lo0", "Loopback">> >>, host.interfaces.entries))
           \/ tree.synchronize_interface = start.synchronize_interface

\* C16: in a run that started on a record with the hasync block, a leaf whose
\* field the declaration does not mention keeps the value the run loaded, in
\* the tree and in the persisted record: each of the four optional scalars
\* when its parameter is None, and the service flags when
\* services_to_synchronize is None.
C16_UnmentionedFramed ==
    start.hasync =>
        /\ \A f \in RemoteFields \cup {"synchronize_peer_ip"} :
               params[f] = None => (tree[f] = start[f] /\ disk[f] = start[f])
        /\ params.services_to_synchronize = NoList =>
               (tree.flags = start.flags /\ disk.flags = start.flags)

C16_Witness ==
    /\ Done /\ outcome = "exit_json"
    /\ start = FullBlock
    /\ params.synchronize_peer_ip = None
    /\ params.remote_system_username = None
    /\ params.remote_system_password = None
    /\ params.services_to_synchronize = NoList
    /\ params.synchronize_config_to_ip # None
    /\ disk = tree /\ disk # start

\* A php query that reports on stderr or returns no entry
Failing(query) == query.stderr \/ Len(query.entries) = 0

\* C17: a step that asks the host for its interfaces or its services ends
\* with OPNSenseGetInterfacesError, not with ValueError and not with success,
\* whenever the query reports on stderr or returns no entry.
C17_LookupErrors ==
    /\ (pc = "synchronize_peer_ip" /\ Truthy(params.synchronize_interface)) =>
           ~Failing(host.interfaces)
    /\ (Done /\ error.handler \in {"check_hasync_node", "synchronize_interface"}
             /\ Failing(host.interfaces)) =>
           error.exc = "OPNSenseGetInterfacesError"
    /\ (pc = "report" /\ params.services_to_synchronize # NoList) =>
           ~Failing(host.services)
    /\ (Done /\ error.handler = "services_to_synchronize" /\ Failing(host.services)) =>
           error.exc = "OPNSenseGetInterfacesError"

\* C18: the session is open exactly while main() is between its first step
\* and its exit: it is acquired once, when the run starts, and released
\* once, when the run ends, however it ends; the tree and the persisted
\* record change only inside the session (the load on acquisition included).
C18_SessionDiscipline ==
    /\ [](session = "open" <=> pc \notin {"idle", "done"})
    /\ [][/\ (session = "closed" /\ session' = "open") =>
                 (pc \in {"idle", "done"} /\ pc' = "check_hasync_node" /\ run' = run + 1)
          /\ (session = "open" /\ session' = "closed") =>
                 (pc' = "done" /\ run' = run
                   /\ outcome' \in {"exit_json", "fail_json", "exception", "apply_failed"})
          /\ (tree' # tree \/ disk' # disk) => (session = "open" \/ session' = "open")
         ]_vars

C18_Witness ==
    /\ Done /\ run = 2
    /\ session = "closed"
    /\ outcome = "exception"
    /\ prev.outcome = "exception"

\* C19: between bootstrap and the report the tree holds the hasync block,
\* so no step of main() meets a record without it; and a step called on a
\* record without the block raises a structural error and leaves the record
\* as it was.
C19_BootstrapFirst ==
    /\ pc \in {"remote_system_synchronization", "synchronize_states",
               "synchronize_interface", "synchronize_peer_ip",
               "services_to_synchronize", "report"} => tree.hasync
    /\ (pc = "returned" /\ ~start.hasync) =>
           /\ error.exc \in {"StructuralPrecondition", "AttributeError"}
           /\ tree = start

====
